---- MODULE Spec2Model ----
(***************************************************************************)
(* A model of infixpy (src/infixpy/__init__.py): the lazy single-pass Seq, *)
(* the callable resolver, the keyed aggregation operations of              *)
(* IterableMixin, the IList / IFrozenList containers and IDict's union and *)
(* join.                                                                   *)
(*                                                                         *)
(* Python values are modelled as follows.  Elements and keys are small     *)
(* integers.  A Python list, tuple or iterator is a TLA+ sequence.  A dict *)
(* is a sequence of <<key, value>> pairs with pairwise distinct keys, in   *)
(* insertion order.  None is the string "None"; where a value is either a  *)
(* number v or None, the two are written <<v>> and <<>>.  An exception is  *)
(* a string naming its type, or a record holding the type and its message. *)
(***************************************************************************)
EXTENDS Integers, Sequences, FiniteSets, TLC

\* ------------------------------------------------------------------ bounds
\* Longest source sequence handed to a Seq or to a keyed aggregation.
MaxLen == 3
\* Elements are drawn from 1..MaxVal.
MaxVal == 2
\* How many times __iter__ is called on one Seq instance.
MaxIters == 2
\* How many times tee is called on one Seq instance.
MaxTees == 2

Vals == 1..MaxVal

\* All sequences over S of length at most n.
RECURSIVE SeqsUpTo(_, _)
SeqsUpTo(S, n) ==
    IF n = 0 THEN {<<>>}
    ELSE LET shorter == SeqsUpTo(S, n - 1)
         IN  shorter \cup {Append(s, x) : s \in {t \in shorter : Len(t) = n - 1}, x \in S}

None == "None"

\* ================================================================== Seq
\* The state of one Seq instance and of its consumer.
VARIABLES
    s_seq,      \* Seq._seq: the wrapped source, or NoAttr once deleted
    s_ran,      \* Seq._ran
    s_iter,     \* the iterator the last __iter__ call returned to the consumer
    s_out,      \* the elements the consumer got from s_iter so far
    s_warn,     \* how many times "Warning: re-running sequence" was printed
    s_exc,      \* the exception the last call on the instance raised, or None
    s_ret,      \* what the last call returned: "self", "iterator" or None
    s_effects,  \* the arguments foreachfunc was called with, in call order
    s_hist,     \* src0: the source's elements at construction; iters / tees:
                \* calls of __iter__ / returns of tee so far; last: the method
                \* called last
    s_str       \* the string mkstring or listrepr returned last

seqVars ==
    <<s_seq, s_ran, s_iter, s_out, s_warn, s_exc, s_ret, s_effects, s_hist, s_str>>

\* The string before + between.join(repr of each item) + after.  `between`
\* shows only between two items.
Str(before, items, between, after) ==
    [before |-> before, items |-> items,
     between |-> IF Len(items) < 2 THEN "" ELSE between, after |-> after]

\* The empty string
EmptyStr == Str("", <<>>, "", "")

\* A source iterable: a list (iter() gives a fresh iterator over all its
\* elements every time) or an iterator (iter() gives the object itself, so the
\* elements taken from it are gone).
Source(kind, items) == [kind |-> kind, items |-> items]

\* The instance has no _seq attribute (after `del self._seq`).
NoAttr == [kind |-> "absent", items |-> <<>>]

NoIter == [state |-> "none", rest |-> <<>>]

\* Seq.__init__
SeqInit ==
    /\ \E kind \in {"list", "iter"}, items \in SeqsUpTo(Vals, MaxLen) :
          /\ s_seq = Source(kind, items)
          /\ s_hist = [src0 |-> items, iters |-> 0, tees |-> 0, last |-> "__init__"]
    /\ s_str = EmptyStr
    /\ s_ran = FALSE
    /\ s_iter = NoIter
    /\ s_out = <<>>
    /\ s_warn = 0
    /\ s_exc = None
    /\ s_ret = None
    /\ s_effects = <<>>

\* `self._seq = tmpseq.copy()`: the new value of _seq after tee realized the
\* source `src` into the list tmpseq.
TeeSeq(src) ==
    Source("list", src.items)

\* Seq.tee(foreachfunc), the whole call.  With _seq deleted the first line
\* raises AttributeError before anything else happens.
Tee ==
    /\ s_hist.tees < MaxTees
    /\ IF s_seq = NoAttr
       THEN /\ s_exc' = "AttributeError"
            /\ s_ret' = None
            /\ s_hist' = [s_hist EXCEPT !.last = "tee"]
            /\ UNCHANGED <<s_seq, s_effects>>
       ELSE /\ s_effects' = s_effects \o s_seq.items
            /\ s_seq' = TeeSeq(s_seq)
            /\ s_exc' = None
            /\ s_ret' = "self"
            /\ s_hist' = [s_hist EXCEPT !.tees = @ + 1, !.last = "tee"]
    /\ UNCHANGED <<s_ran, s_iter, s_out, s_warn, s_str>>

\* StrMixin.mkstring(lst, between, before, after): the string returned.  A
\* falsy lst (an empty list; an iterator is never falsy) gives ''.
mkstring(lst, between, before, after) ==
    IF lst.kind = "list" /\ lst.items = <<>>
    THEN EmptyStr
    ELSE Str(before, lst.items, between, after)

\* StrMixin.listrepr(lst)
listrepr(lst) ==
    IF lst.kind = "list" /\ lst.items = <<>>
    THEN EmptyStr
    ELSE mkstring(lst, ",", "[", "]")

\* The source after StrMixin.mkstring went through it: an iterator has given
\* out all its elements, a list is as it was.
Drained(lst) ==
    IF lst.kind = "iter" THEN Source("iter", <<>>) ELSE lst

\* Seq.mkstring(between, before, after) and Seq.listrepr(), the whole call:
\* both hand self._seq itself to StrMixin, which reads it to its end; _ran is
\* not touched.  With _seq deleted they raise AttributeError.
Render(method, str) ==
    /\ s_hist' = [s_hist EXCEPT !.last = method]
    /\ IF s_seq = NoAttr
       THEN /\ s_exc' = "AttributeError"
            /\ s_ret' = None
            /\ UNCHANGED <<s_seq, s_str>>
       ELSE /\ s_exc' = None
            /\ s_ret' = "str"
            /\ s_str' = str
            /\ s_seq' = Drained(s_seq)
    /\ UNCHANGED <<s_ran, s_iter, s_out, s_warn, s_effects>>

\* mkstring(',') and mkstring('-', '<', '>')
MkString ==
    \E args \in {<<",", "", "">>, <<"-", "<", ">">>} :
        Render("mkstring", mkstring(s_seq, args[1], args[2], args[3]))

ListRepr == Render("listrepr", listrepr(s_seq))

\* `del self._seq` in the finally clause of __iter__: the value of _seq after
\* the call.
SeqAfterIter_Keep(src) ==
    src

SeqAfterIter(src) ==
    NoAttr

\* Seq.__iter__, the whole call.  With _seq deleted, `iter(self._seq)` raises
\* AttributeError, and so does `del self._seq` in the finally clause: the call
\* raises and the consumer gets no iterator.
SeqIter ==
    /\ s_hist.iters < MaxIters
    /\ s_warn' = IF s_ran THEN s_warn + 1 ELSE s_warn
    /\ s_ran' = TRUE
    /\ s_hist' = [s_hist EXCEPT !.iters = @ + 1, !.last = "__iter__"]
    /\ s_out' = <<>>
    /\ IF s_seq = NoAttr
       THEN /\ s_exc' = "AttributeError"
            /\ s_ret' = None
            /\ s_iter' = NoIter
            /\ UNCHANGED s_seq
       ELSE /\ s_exc' = None
            /\ s_ret' = "iterator"
            /\ s_iter' = [state |-> "live", rest |-> s_seq.items]
            /\ s_seq' = SeqAfterIter(s_seq)
    /\ UNCHANGED <<s_effects, s_str>>

\* The consumer calls next() on the iterator it holds: an element, or
\* StopIteration, which ends the traversal.
SeqPull ==
    /\ s_iter.state = "live"
    /\ IF s_iter.rest = <<>>
       THEN /\ s_iter' = [s_iter EXCEPT !.state = "done"]
            /\ UNCHANGED s_out
       ELSE /\ s_iter' = [s_iter EXCEPT !.rest = Tail(@)]
            /\ s_out' = Append(s_out, Head(s_iter.rest))
    /\ UNCHANGED <<s_seq, s_ran, s_warn, s_exc, s_ret, s_effects, s_hist, s_str>>

\* ================================================================== dict
\* A dict (and an IDict): <<key, value>> pairs, keys distinct, insertion order.
DictKeys(d) == [i \in 1..Len(d) |-> d[i][1]]

DictKeySet(d) == {d[i][1] : i \in 1..Len(d)}

DictHas(d, k) == k \in DictKeySet(d)

\* d[k] for a key the dict has
DictGet(d, k) == d[CHOOSE i \in 1..Len(d) : d[i][1] = k][2]

\* d[k] = v: a key the dict has keeps its place, a new key goes last
DictSet(d, k, v) ==
    IF DictHas(d, k)
    THEN [i \in 1..Len(d) |-> IF d[i][1] = k THEN <<k, v>> ELSE d[i]]
    ELSE Append(d, <<k, v>>)

\* The dict as a set of <<key, value>> pairs.
DictItems(d) == {d[i] : i \in 1..Len(d)}

\* ================================================================== keyed aggregation
\* IterableMixin.keyby / aggregateby / foldby on a realized collection `self`.
VARIABLES
    a_self,     \* the elements of the collection the methods are called on
    a_key,      \* the key function passed to the call
    a_call,     \* the method called last, or None
    a_ret,      \* the IDict it returned, or None
    a_exc       \* the exception it raised, or None

aggVars == <<a_self, a_key, a_call, a_ret, a_exc>>

KeyFns == {"identity", "mod2", "zero"}

\* The key functions handed in by the caller:
\* lambda x: x, lambda x: x % 2, lambda x: 0.
KeyFn(kf, x) ==
    CASE kf = "identity" -> x
      [] kf = "mod2"     -> x % 2
      [] kf = "zero"     -> 0

\* The accumulator functions handed in by the caller.  Accumulators are
\* tuples recording what was applied: create is lambda x: (x,) and add is
\* lambda agg, x: agg + (x,); foldby's seed agg0 is the empty tuple.
Create(cr, x) ==
    CASE cr = "tuple1" -> <<x>>
      [] cr = "agg0"   -> <<>>

Add(agg, x) == Append(agg, x)

AggInit ==
    /\ a_self \in SeqsUpTo(Vals, MaxLen)
    /\ a_key \in KeyFns
    /\ a_call = None
    /\ a_ret = None
    /\ a_exc = None

\* The loop of keyby over the elements `rest`, with d the IDict built so far.
RECURSIVE keyby_loop_NoCheck(_, _, _)
keyby_loop_NoCheck(d, rest, kf) ==
    IF rest = <<>> THEN [exc |-> None, ret |-> d]
    ELSE keyby_loop_NoCheck(DictSet(d, KeyFn(kf, Head(rest)), Head(rest)), Tail(rest), kf)

RECURSIVE keyby_loop(_, _, _)
keyby_loop(d, rest, kf) ==
    IF rest = <<>> THEN [exc |-> None, ret |-> d]
    ELSE LET el == Head(rest)
             k  == KeyFn(kf, el)
         IN  IF DictHas(d, k)
             THEN [exc |-> "ValueError", ret |-> None]
             ELSE keyby_loop(DictSet(d, k, el), Tail(rest), kf)

keyby_NoCheck(self, kf) == keyby_loop_NoCheck(<<>>, self, kf)

keyby(self, kf) == keyby_loop(<<>>, self, kf)

\* One turn of aggregateby's loop for element x: the lookup under the
\* resolved key k, the seeding on KeyError, and the store of the updated
\* accumulator, which the code files under the element x itself.
aggregateby_step(aggs_by_key, x, kf, cr) ==
    LET k      == KeyFn(kf, x)
        found  == DictHas(aggs_by_key, k)
        agg    == IF found THEN DictGet(aggs_by_key, k) ELSE Create(cr, x)
        seeded == IF found THEN aggs_by_key ELSE DictSet(aggs_by_key, k, agg)
    IN  DictSet(seeded, x, Add(agg, x))

RECURSIVE aggregateby_loop(_, _, _, _)
aggregateby_loop(aggs_by_key, rest, kf, cr) ==
    IF rest = <<>> THEN aggs_by_key
    ELSE aggregateby_loop(aggregateby_step(aggs_by_key, Head(rest), kf, cr),
                          Tail(rest), kf, cr)

aggregateby(self, kf, cr) == aggregateby_loop(<<>>, self, kf, cr)

\* foldby(key, agg0, add) is aggregateby(key, lambda _: agg0, add)
foldby(self, kf) == aggregateby(self, kf, "agg0")

KeyBy ==
    /\ a_call' = "keyby"
    /\ a_ret' = keyby(a_self, a_key).ret
    /\ a_exc' = keyby(a_self, a_key).exc
    /\ UNCHANGED <<a_self, a_key>>

AggregateBy ==
    /\ a_call' = "aggregateby"
    /\ a_ret' = aggregateby(a_self, a_key, "tuple1")
    /\ a_exc' = None
    /\ UNCHANGED <<a_self, a_key>>

FoldBy ==
    /\ a_call' = "foldby"
    /\ a_ret' = foldby(a_self, a_key)
    /\ a_exc' = None
    /\ UNCHANGED <<a_self, a_key>>

\* ================================================================== IDict
\* IDict.union and IDict.join on two mappings, and the consumer of the Seq
\* that join returns.
VARIABLES
    d_self,     \* the IDict the methods are called on
    d_other,    \* the mapping passed as `other`
    d_in,       \* self and other as they were constructed
    d_call,     \* the last call: its method, and its `how` or error_on_overlap
    d_ret,      \* the IDict union returned, or None
    d_exc,      \* the exception the last call raised, or NoError
    d_gen,      \* join's generator: its state and the keys it has still to visit
    d_out       \* the pairs the consumer got from join's Seq so far

dictVars == <<d_self, d_other, d_in, d_call, d_ret, d_exc, d_gen, d_out>>

\* Keys are drawn from 0..MaxKey.
MaxKey == 2
\* The largest mapping handed to union and join.
MaxDictLen == 2

Keys == 0..MaxKey

\* The values of self, and the value other holds under key k.
SelfVals == {1, 2}

OtherVal(k) == 10 * (k + 1)

\* All dicts of at most n entries with keys in K and, under key k, a value in V[k].
RECURSIVE DictsUpTo(_, _, _)
DictsUpTo(K, V, n) ==
    IF n = 0 THEN {<<>>}
    ELSE LET smaller == DictsUpTo(K, V, n - 1)
         IN  smaller \cup
             {Append(d, <<k, v>>) :
                 d \in {e \in smaller : Len(e) = n - 1}, k \in K, v \in UNION {V[j] : j \in K}}

WellFormedDict(d, V) ==
    /\ \A i, j \in 1..Len(d) : d[i][1] = d[j][1] => i = j
    /\ \A i \in 1..Len(d) : d[i][2] \in V[d[i][1]]

NoCall == [op |-> None, how |-> "", error_on_overlap |-> FALSE]

\* No exception was raised.
NoError == [type |-> None, n |-> 0]

DictInit ==
    /\ d_self \in {d \in DictsUpTo(Keys, [k \in Keys |-> SelfVals], MaxDictLen) :
                      WellFormedDict(d, [k \in Keys |-> SelfVals])}
    /\ d_other \in {d \in DictsUpTo(Keys, [k \in Keys |-> {OtherVal(k)}], MaxDictLen) :
                      WellFormedDict(d, [k \in Keys |-> {OtherVal(k)}])}
    /\ d_in = [self |-> d_self, other |-> d_other]
    /\ d_call = NoCall
    /\ d_ret = None
    /\ d_exc = NoError
    /\ d_gen = [state |-> "none", keys |-> <<>>]
    /\ d_out = <<>>

\* The elements of a set of small non-negative integers in the order a Python
\* set iterates them: by hash slot, which is by value.
RECURSIVE SetToSeq(_)
SetToSeq(S) ==
    IF S = {} THEN <<>>
    ELSE LET m == CHOOSE x \in S : \A y \in S : x <= y
         IN  <<m>> \o SetToSeq(S \ {m})

\* dict.update(other) on d
RECURSIVE DictUpdate(_, _)
DictUpdate(d, other) ==
    IF other = <<>> THEN d
    ELSE DictUpdate(DictSet(d, Head(other)[1], Head(other)[2]), Tail(other))

\* dict.get(key): the value v, written <<v>>, or None, written <<>>
DictGetOrNone(d, k) == IF DictHas(d, k) THEN <<DictGet(d, k)>> ELSE <<>>

\* IDict.union: the exception raised or the mapping returned, and self after
\* the call.
union_SelfWins(self, other, error_on_overlap) ==
    LET common_keys == DictKeySet(self) \cap DictKeySet(other)
    IN  IF error_on_overlap /\ common_keys # {}
        THEN [exc |-> [type |-> "ValueError", n |-> Cardinality(common_keys)],
              ret |-> None, self |-> self]
        ELSE [exc |-> NoError, ret |-> DictUpdate(other, self), self |-> self]

union(self, other, error_on_overlap) ==
    LET common_keys == DictKeySet(self) \cap DictKeySet(other)
    IN  IF error_on_overlap /\ common_keys # {}
        THEN [exc |-> [type |-> "ValueError", n |-> Cardinality(common_keys)],
              ret |-> None, self |-> self]
        ELSE [exc |-> NoError, ret |-> DictUpdate(self, other), self |-> self]

Hows == {"inner", "outer", "left", "right", "cross"}

\* The `keys` join's generator goes through, or the ValueError of an invalid
\* `how`.
join_keys_RightFromSelf(self, other, how) ==
    CASE how = "inner" -> [exc |-> NoError, keys |-> SetToSeq(DictKeySet(self) \cap DictKeySet(other))]
      [] how = "outer" -> [exc |-> NoError, keys |-> SetToSeq(DictKeySet(self) \cup DictKeySet(other))]
      [] how = "left"  -> [exc |-> NoError, keys |-> DictKeys(self)]
      [] how = "right" -> [exc |-> NoError, keys |-> DictKeys(self)]
      [] OTHER         -> [exc |-> [type |-> "ValueError", n |-> 0], keys |-> <<>>]

join_keys(self, other, how) ==
    CASE how = "inner" -> [exc |-> NoError, keys |-> SetToSeq(DictKeySet(self) \cap DictKeySet(other))]
      [] how = "outer" -> [exc |-> NoError, keys |-> SetToSeq(DictKeySet(self) \cup DictKeySet(other))]
      [] how = "left"  -> [exc |-> NoError, keys |-> DictKeys(self)]
      [] how = "right" -> [exc |-> NoError, keys |-> DictKeys(other)]
      [] OTHER         -> [exc |-> [type |-> "ValueError", n |-> 0], keys |-> <<>>]

\* What join's generator yields for `key`
join_pair(self, other, key) ==
    <<key, <<DictGetOrNone(self, key), DictGetOrNone(other, key)>>>>

\* self.union(other, error_on_overlap), the whole call
Union ==
    \E error_on_overlap \in BOOLEAN :
        LET r == union(d_self, d_other, error_on_overlap)
        IN  /\ d_call' = [op |-> "union", how |-> "", error_on_overlap |-> error_on_overlap]
            /\ d_ret' = r.ret
            /\ d_exc' = r.exc
            /\ d_self' = r.self
            /\ d_gen' = [state |-> "none", keys |-> <<>>]
            /\ d_out' = <<>>
            /\ UNCHANGED <<d_other, d_in>>

\* self.join(other, how), the whole call: it returns a Seq over a generator
\* that has not started
Join ==
    \E how \in Hows :
        LET r == join_keys(d_self, d_other, how)
        IN  /\ d_call' = [op |-> "join", how |-> how, error_on_overlap |-> FALSE]
            /\ d_exc' = r.exc
            /\ d_gen' = IF r.exc = NoError
                        THEN [state |-> "live", keys |-> r.keys]
                        ELSE [state |-> "none", keys |-> <<>>]
            /\ d_ret' = None
            /\ d_out' = <<>>
            /\ UNCHANGED <<d_self, d_other, d_in>>

\* The consumer of join's Seq asks for the next pair
JoinPull ==
    /\ d_gen.state = "live"
    /\ IF d_gen.keys = <<>>
       THEN /\ d_gen' = [d_gen EXCEPT !.state = "done"]
            /\ UNCHANGED d_out
       ELSE /\ d_gen' = [d_gen EXCEPT !.keys = Tail(@)]
            /\ d_out' = Append(d_out, join_pair(d_self, d_other, Head(d_gen.keys)))
    /\ UNCHANGED <<d_self, d_other, d_in, d_call, d_ret, d_exc>>

\* ================================================================== callable resolver
\* get_callable and the chaining operations that take a Callable Specifier:
\* map, filter, flatmap, fold and groupby, called on an IList of records with
\* the fields x and y (namedtuples, so that attribute and index access both
\* work), and the consumer of the Seq the lazy ones return.
VARIABLES
    r_parent,   \* the elements of the IList the operations are called on
    r_call,     \* the operation called last, or None
    r_spec,     \* the Callable Specifier it was given
    r_exc,      \* what the chaining call, or the last next() after it that did
                \* not end the traversal, raised, and by what: "call" is the
                \* chaining operation itself, "next" is the consumer's next().
                \* The StopIteration that ends a traversal is not recorded.
    r_pipe,     \* the Seq returned: its operation, its resolved function, the
                \* parent's elements not yet read, flatmap's current sub-iterable
    r_out,      \* the elements the consumer got from the Seq so far
    r_ret,      \* <<v>> for the value v an eager operation (fold, groupby)
                \* returned, <<>> when nothing was returned
    r_obs       \* since the last chaining call began: iters, how many times
                \* iter() was called on the parent; calls, how many times the
                \* resolved function was called

resVars == <<r_parent, r_call, r_spec, r_exc, r_pipe, r_out, r_ret, r_obs>>

\* The longest IList the chaining operations are called on.
MaxParentLen == 2

\* namedtuple('P', 'x y') with x, y in {0, 1}
Points == {<<x, y>> : x \in {0, 1}, y \in {0, 1}}

Specifier(kind, name, index) == [kind |-> kind, name |-> name, index |-> index]

\* The specifiers the caller hands in.  Callables: lambda p: p.x + p.y, the
\* builtin tuple, and the two-argument lambda acc, p: acc + p.x.  Attribute
\* names: x and y, and z, which no element has.  Indexes: 0 and 1, and 2, which
\* is out of range.  Neither callable, str nor int: None.
Specifiers ==
    {Specifier("callable", f, 0) : f \in {"sum_xy", "tuple", "acc_plus_x"}}
    \cup {Specifier("str", a, 0) : a \in {"x", "y", "z"}}
    \cup {Specifier("int", "", i) : i \in 0..2}
    \cup {Specifier("other", "None", 0)}

NoExc == [type |-> None, msg |-> "", at |-> ""]

Exc(type, msg) == [type |-> type, msg |-> msg, at |-> ""]

NoPipe == [op |-> None, fn |-> Specifier(None, "", 0), rest |-> <<>>, inner |-> <<>>,
           state |-> "none"]

\* get_callable: the function resolved, or the TypeError raised
get_callable_NoRaise(obj) ==
    CASE obj.kind = "callable" -> [exc |-> NoExc, fn |-> obj]
      [] obj.kind = "str"      -> [exc |-> NoExc, fn |-> Specifier("attrgetter", obj.name, 0)]
      [] obj.kind = "int"      -> [exc |-> NoExc, fn |-> Specifier("itemgetter", "", obj.index)]
      [] OTHER                 -> [exc |-> NoExc, fn |-> obj]

get_callable(obj) ==
    CASE obj.kind = "callable" -> [exc |-> NoExc, fn |-> obj]
      [] obj.kind = "str"      -> [exc |-> NoExc, fn |-> Specifier("attrgetter", obj.name, 0)]
      [] obj.kind = "int"      -> [exc |-> NoExc, fn |-> Specifier("itemgetter", "", obj.index)]
      [] OTHER                 -> [exc |-> Exc("TypeError", "Can't call"), fn |-> obj]

\* A value returned by a call, with what Python's iter() and bool() make of it.
IntVal(n) == [exc |-> NoExc, val |-> n, iterable |-> FALSE, truthy |-> n # 0]

TupleVal(t) == [exc |-> NoExc, val |-> t, iterable |-> TRUE, truthy |-> t # <<>>]

Raise(type, msg) == [exc |-> Exc(type, msg), val |-> 0, iterable |-> FALSE, truthy |-> FALSE]

\* fn(p): Python's call of the object fn with the one argument p
Call1(fn, p) ==
    CASE fn.kind = "callable" /\ fn.name = "sum_xy"     -> IntVal(p[1] + p[2])
      [] fn.kind = "callable" /\ fn.name = "tuple"      -> TupleVal(p)
      [] fn.kind = "callable" /\ fn.name = "acc_plus_x" -> Raise("TypeError", "arguments")
      [] fn.kind = "attrgetter" /\ fn.name = "x"        -> IntVal(p[1])
      [] fn.kind = "attrgetter" /\ fn.name = "y"        -> IntVal(p[2])
      [] fn.kind = "attrgetter"                         -> Raise("AttributeError", fn.name)
      [] fn.kind = "itemgetter" /\ fn.index < Len(p)    -> IntVal(p[fn.index + 1])
      [] fn.kind = "itemgetter"                         -> Raise("IndexError", "")
      [] OTHER                                          -> Raise("TypeError", "not callable")

\* fn(acc, p): Python's call of the object fn with two arguments
Call2(fn, acc, p) ==
    CASE fn.kind = "callable" /\ fn.name = "acc_plus_x" -> IntVal(acc + p[1])
      [] fn.kind \in {"callable", "attrgetter", "itemgetter"} -> Raise("TypeError", "arguments")
      [] OTHER                                          -> Raise("TypeError", "not callable")

ResInit ==
    /\ r_parent \in SeqsUpTo(Points, MaxParentLen)
    /\ r_call = None
    /\ r_spec = Specifier(None, "", 0)
    /\ r_exc = NoExc
    /\ r_pipe = NoPipe
    /\ r_out = <<>>
    /\ r_ret = <<>>
    /\ r_obs = [iters |-> 0, calls |-> 0]

\* map, filter and flatmap, the whole call: get_callable comes first, then
\* iter(self) (map(), filter() and a generator expression all take the iterator
\* of their outermost iterable at once), and a Seq is returned.
Lazy(op, spec) ==
    LET g == get_callable(spec)
    IN  /\ r_call' = op
        /\ r_spec' = spec
        /\ r_out' = <<>>
        /\ r_ret' = <<>>
        /\ IF g.exc # NoExc
           THEN /\ r_exc' = [g.exc EXCEPT !.at = "call"]
                /\ r_pipe' = NoPipe
                /\ r_obs' = [iters |-> 0, calls |-> 0]
           ELSE /\ r_exc' = NoExc
                /\ r_pipe' = [op |-> op, fn |-> g.fn, rest |-> r_parent, inner |-> <<>>,
                              state |-> "live"]
                /\ r_obs' = [iters |-> 1, calls |-> 0]
        /\ UNCHANGED r_parent

Map == \E spec \in Specifiers : Lazy("map", spec)

Filter == \E spec \in Specifiers : Lazy("filter", spec)

FlatMap == \E spec \in Specifiers : Lazy("flatmap", spec)

\* reduce(fn, rest, acc): the value, or the exception of the first call that
\* raises, and the number of calls made
RECURSIVE reduce(_, _, _, _)
reduce(fn, rest, acc, calls) ==
    IF rest = <<>> THEN [exc |-> NoExc, ret |-> acc, calls |-> calls]
    ELSE LET c == Call2(fn, acc, Head(rest))
         IN  IF c.exc # NoExc
             THEN [exc |-> c.exc, ret |-> None, calls |-> calls + 1]
             ELSE reduce(fn, Tail(rest), c.val, calls + 1)

\* groupby's loop: the dict of lists, or the exception of the first call that
\* raises, and the number of calls made
RECURSIVE groupby_loop(_, _, _, _)
groupby_loop(fn, rest, d, calls) ==
    IF rest = <<>> THEN [exc |-> NoExc, ret |-> d, calls |-> calls]
    ELSE LET c == Call1(fn, Head(rest))
         IN  IF c.exc # NoExc
             THEN [exc |-> c.exc, ret |-> None, calls |-> calls + 1]
             ELSE groupby_loop(fn, Tail(rest),
                     DictSet(d, c.val,
                             Append(IF DictHas(d, c.val) THEN DictGet(d, c.val) ELSE <<>>,
                                    Head(rest))),
                     calls + 1)

\* fold and groupby, the whole call: get_callable comes first, then the loop
\* over self.
Eager(op, spec) ==
    LET g == get_callable(spec)
        r == IF op = "fold" THEN reduce(g.fn, r_parent, 0, 0)
                            ELSE groupby_loop(g.fn, r_parent, <<>>, 0)
    IN  /\ r_call' = op
        /\ r_spec' = spec
        /\ r_out' = <<>>
        /\ r_pipe' = NoPipe
        /\ IF g.exc # NoExc
           THEN /\ r_exc' = [g.exc EXCEPT !.at = "call"]
                /\ r_ret' = <<>>
                /\ r_obs' = [iters |-> 0, calls |-> 0]
           ELSE /\ r_exc' = IF r.exc = NoExc THEN NoExc ELSE [r.exc EXCEPT !.at = "call"]
                /\ r_ret' = IF r.exc = NoExc THEN <<r.ret>> ELSE <<>>
                /\ r_obs' = [iters |-> 1, calls |-> r.calls]
        /\ UNCHANGED r_parent

Fold == \E spec \in Specifiers : Eager("fold", spec)

\* groupby's keys are compared with each other, so they are all numbers here
GroupBy == \E spec \in Specifiers \ {Specifier("callable", "tuple", 0)} : Eager("groupby", spec)

\* next() on a filter object: the first element of rest the function finds
\* truthy; an exception leaves the object where it was raised
RECURSIVE filter_next(_, _, _)
filter_next(fn, rest, calls) ==
    IF rest = <<>> THEN [exc |-> NoExc, stop |-> TRUE, val |-> <<>>, rest |-> <<>>, calls |-> calls]
    ELSE LET c == Call1(fn, Head(rest))
         IN  IF c.exc # NoExc
             THEN [exc |-> c.exc, stop |-> FALSE, val |-> <<>>, rest |-> Tail(rest),
                   calls |-> calls + 1]
             ELSE IF c.truthy
             THEN [exc |-> NoExc, stop |-> FALSE, val |-> Head(rest), rest |-> Tail(rest),
                   calls |-> calls + 1]
             ELSE filter_next(fn, Tail(rest), calls + 1)

\* The consumer calls next() on the Seq's iterator.  A next() that finds the
\* parent at its end raises StopIteration and leaves r_exc as it was.
ResPull ==
    /\ r_pipe.state = "live"
    /\ UNCHANGED <<r_parent, r_call, r_spec, r_ret>>
    /\ CASE r_pipe.op = "map" ->
              IF r_pipe.rest = <<>>
              THEN /\ r_pipe' = [r_pipe EXCEPT !.state = "done"]
                   /\ UNCHANGED <<r_out, r_exc, r_obs>>
              ELSE LET c == Call1(r_pipe.fn, Head(r_pipe.rest))
                   IN  /\ r_pipe' = [r_pipe EXCEPT !.rest = Tail(@)]
                       /\ r_obs' = [r_obs EXCEPT !.calls = @ + 1]
                       /\ r_exc' = IF c.exc = NoExc THEN NoExc ELSE [c.exc EXCEPT !.at = "next"]
                       /\ r_out' = IF c.exc = NoExc THEN Append(r_out, c.val) ELSE r_out
         [] r_pipe.op = "filter" ->
              LET n == filter_next(r_pipe.fn, r_pipe.rest, 0)
              IN  /\ r_pipe' = [r_pipe EXCEPT !.rest = n.rest,
                                              !.state = IF n.stop THEN "done" ELSE "live"]
                  /\ r_obs' = [r_obs EXCEPT !.calls = @ + n.calls]
                  /\ r_exc' = IF n.stop THEN r_exc
                             ELSE IF n.exc = NoExc THEN NoExc
                             ELSE [n.exc EXCEPT !.at = "next"]
                  /\ r_out' = IF n.exc = NoExc /\ ~n.stop THEN Append(r_out, n.val) ELSE r_out
         [] r_pipe.op = "flatmap" ->
              IF r_pipe.inner # <<>>
              THEN /\ r_pipe' = [r_pipe EXCEPT !.inner = Tail(@)]
                   /\ r_out' = Append(r_out, Head(r_pipe.inner))
                   /\ r_exc' = NoExc
                   /\ UNCHANGED r_obs
              ELSE IF r_pipe.rest = <<>>
              THEN /\ r_pipe' = [r_pipe EXCEPT !.state = "done"]
                   /\ UNCHANGED <<r_out, r_exc, r_obs>>
              ELSE LET c == Call1(r_pipe.fn, Head(r_pipe.rest))
                   IN  /\ r_obs' = [r_obs EXCEPT !.calls = @ + 1]
                       /\ IF c.exc # NoExc
                          THEN /\ r_exc' = [c.exc EXCEPT !.at = "next"]
                               /\ r_pipe' = [r_pipe EXCEPT !.rest = Tail(@), !.state = "done"]
                               /\ UNCHANGED r_out
                          ELSE IF ~c.iterable
                          THEN /\ r_exc' = [Exc("TypeError", "not iterable") EXCEPT !.at = "next"]
                               /\ r_pipe' = [r_pipe EXCEPT !.rest = Tail(@), !.state = "done"]
                               /\ UNCHANGED r_out
                          ELSE /\ r_exc' = NoExc
                               /\ r_pipe' = [r_pipe EXCEPT !.rest = Tail(@), !.inner = Tail(c.val)]
                               /\ r_out' = Append(r_out, Head(c.val))

\* ================================================================== zip
\* next() on zip(range(n), self): the iterators are asked from left to right,
\* and the first one that is exhausted ends the zip before those after it are
\* asked.  z is the zip's state (i, how far range(n) has
\* got; up, the elements the upstream iterator has not given out yet); the result says whether it stopped, the
\* element of self it paired, its state afterwards and how many times next()
\* was called on the upstream iterator.
zip_next_SelfFirst(z, n) ==
    IF z.up = <<>>
    THEN [stop |-> TRUE, val |-> 0, zip |-> z, nexts |-> 1]
    ELSE IF z.i >= n
    THEN [stop |-> TRUE, val |-> 0, zip |-> [z EXCEPT !.up = Tail(@)], nexts |-> 1]
    ELSE [stop |-> FALSE, val |-> Head(z.up),
          zip |-> [i |-> z.i + 1, up |-> Tail(z.up)], nexts |-> 1]

zip_next(z, n) ==
    IF z.i >= n
    THEN [stop |-> TRUE, val |-> 0, zip |-> z, nexts |-> 0]
    ELSE IF z.up = <<>>
    THEN [stop |-> TRUE, val |-> 0, zip |-> [z EXCEPT !.i = @ + 1], nexts |-> 1]
    ELSE [stop |-> FALSE, val |-> Head(z.up),
          zip |-> [i |-> z.i + 1, up |-> Tail(z.up)], nexts |-> 1]

\* ================================================================== IList, IFrozenList
\* The objects the client holds: Python lists and tuples, and the IList and
\* IFrozenList instances built over them.  An object's id is its index in
\* l_heap; an IList or IFrozenList refers to its backing _list by id, so that
\* two objects sharing one list is a state of the model.
VARIABLES
    l_heap,     \* the objects, by id
    l_born,     \* by id, for an IFrozenList: the object it was constructed from
                \* and the elements it held when it was constructed
    l_call,     \* the last call: its method and the id it was called on
    l_exc,      \* the exception the last call raised, or None
    l_ret,      \* what the last call returned: the id of the object (0: not an
                \* object of the heap) and the elements it holds; for next(),
                \* the element it gave
    l_seq,      \* the iterator behind the Seq the last read operation returned:
                \* the operation, the object it was called on, the list or
                \* tuple it reads, how far it has got in it (reverse: the place
                \* it gives next), how far take's range has got, and its state:
                \* "none", "live", "done"
    l_out       \* the elements the consumer got from it so far

listVars == <<l_heap, l_born, l_call, l_exc, l_ret, l_seq, l_out>>

\* How many objects the client creates.
MaxObjs == 4
\* The longest Python list.
MaxListLen == 2

\* The elements of the client's lists: one that filter(IsBig) drops and one
\* that it keeps.
ListVals == {1, 2}

Obj(type, items, ref) == [t |-> type, items |-> items, ref |-> ref]

Ids(heap) == 1..Len(heap)

OfType(heap, types) == {i \in Ids(heap) : heap[i].t \in types}

\* The elements iter(object) gives: a list's or tuple's own, and for an IList
\* or IFrozenList those of its _list.
RECURSIVE Items(_, _)
Items(heap, i) ==
    IF heap[i].t \in {"list", "tuple"} THEN heap[i].items ELSE Items(heap, heap[i].ref)

\* The list or tuple an object keeps its elements in: itself, or its _list.
RECURSIVE Backing(_, _)
Backing(heap, i) ==
    IF heap[i].t \in {"list", "tuple"} THEN i ELSE Backing(heap, heap[i].ref)

NotFrozen == [src |-> 0, items |-> <<>>]

NoSeq == [op |-> None, on |-> 0, list |-> 0, pos |-> 0, i |-> 0, state |-> "none"]

ListInit ==
    /\ \E type \in {"list", "tuple"}, items \in SeqsUpTo(ListVals, MaxListLen) :
          l_heap = <<Obj(type, items, 0)>>
    /\ l_born = <<NotFrozen>>
    /\ l_call = [op |-> None, on |-> 0]
    /\ l_exc = None
    /\ l_ret = [ref |-> 0, val |-> <<>>]
    /\ l_seq = NoSeq
    /\ l_out = <<>>

\* IList.__init__(l): a list is kept as it is, anything else is copied into a
\* new list.  The heap after the construction; the new IList is its last object.
IList_init(heap, l) ==
    IF heap[l].t = "list"
    THEN Append(heap, Obj("IList", <<>>, l))
    ELSE heap \o <<Obj("list", Items(heap, l), 0), Obj("IList", <<>>, Len(heap) + 1)>>

\* IFrozenList.__init__(l): a tuple is kept as it is, anything else is copied
\* into a new tuple.  The heap after the construction; the new IFrozenList is
\* its last object.
IFrozenList_init_NoCopy(heap, l) ==
    Append(heap, Obj("IFrozenList", <<>>, l))

IFrozenList_init(heap, l) ==
    IF heap[l].t = "tuple"
    THEN Append(heap, Obj("IFrozenList", <<>>, l))
    ELSE heap \o <<Obj("tuple", Items(heap, l), 0), Obj("IFrozenList", <<>>, Len(heap) + 1)>>

\* l_born after the heap grew to `heap` in a construction from the object l: a
\* new IFrozenList is entered with l and the elements it holds now
Born(born, heap, l) ==
    [i \in Ids(heap) |->
        IF i <= Len(born) THEN born[i]
        ELSE IF heap[i].t = "IFrozenList" THEN [src |-> l, items |-> Items(heap, i)]
        ELSE NotFrozen]

\* The client constructs IList(l) from an object it holds.
NewIList ==
    \E l \in Ids(l_heap) :
        /\ Len(IList_init(l_heap, l)) <= MaxObjs
        /\ l_heap' = IList_init(l_heap, l)
        /\ l_born' = Born(l_born, l_heap', l)
        /\ l_call' = [op |-> "IList", on |-> l]
        /\ l_exc' = None
        /\ l_ret' = [ref |-> Len(l_heap'), val |-> Items(l_heap', Len(l_heap'))]
        /\ UNCHANGED <<l_seq, l_out>>

\* The client constructs IFrozenList(l) from an object it holds.
NewIFrozenList ==
    \E l \in Ids(l_heap) :
        /\ Len(IFrozenList_init(l_heap, l)) <= MaxObjs
        /\ l_heap' = IFrozenList_init(l_heap, l)
        /\ l_born' = Born(l_born, l_heap', l)
        /\ l_call' = [op |-> "IFrozenList", on |-> l]
        /\ l_exc' = None
        /\ l_ret' = [ref |-> Len(l_heap'), val |-> Items(l_heap', Len(l_heap'))]
        /\ UNCHANGED <<l_seq, l_out>>

\* list.append(x) on the list with id l
list_append(heap, l, x) == [heap EXCEPT ![l].items = Append(@, x)]

\* The client appends to a Python list it holds.
ListAppend ==
    \E l \in OfType(l_heap, {"list"}), x \in ListVals :
        /\ Len(l_heap[l].items) < MaxListLen
        /\ l_heap' = list_append(l_heap, l, x)
        /\ l_call' = [op |-> "list.append", on |-> l]
        /\ l_exc' = None
        /\ l_ret' = [ref |-> 0, val |-> <<>>]
        /\ UNCHANGED <<l_born, l_seq, l_out>>

\* IList.append(x): self._list.append(x)
IListAppend ==
    \E o \in OfType(l_heap, {"IList"}), x \in ListVals :
        /\ Len(Items(l_heap, o)) < MaxListLen
        /\ l_heap' = list_append(l_heap, l_heap[o].ref, x)
        /\ l_call' = [op |-> "append", on |-> o]
        /\ l_exc' = None
        /\ l_ret' = [ref |-> 0, val |-> <<>>]
        /\ UNCHANGED <<l_born, l_seq, l_out>>

\* The attributes ListMixin.__init__ sets on an instance.
Attrs == {"_list"}

\* IList.copy, and __copy__, which calls it: IList(list(self._l)).  The
\* exception raised, and the heap after the call.
IList_copy(heap, o) ==
    IF "_l" \in Attrs
    THEN [exc |-> None,
          heap |-> heap \o <<Obj("list", Items(heap, o), 0), Obj("IList", <<>>, Len(heap) + 1)>>]
    ELSE [exc |-> "AttributeError", heap |-> heap]

\* IList.__deepcopy__: IList(copy.deepcopy(x) for x in self._l); the generator
\* expression evaluates self._l at once.  Elements are numbers, which deepcopy
\* returns as they are.
IList_deepcopy(heap, o) ==
    IF "_l" \in Attrs
    THEN [exc |-> None,
          heap |-> heap \o <<Obj("list", Items(heap, o), 0), Obj("IList", <<>>, Len(heap) + 1)>>]
    ELSE [exc |-> "AttributeError", heap |-> heap]

\* copy() or copy.copy() of an IList
IListCopy ==
    \E o \in OfType(l_heap, {"IList"}) :
        LET r == IList_copy(l_heap, o)
        IN  /\ Len(r.heap) <= MaxObjs
            /\ l_heap' = r.heap
            /\ l_born' = Born(l_born, l_heap', o)
            /\ l_call' = [op |-> "copy", on |-> o]
            /\ l_exc' = r.exc
            /\ l_ret' = IF r.exc = None
                        THEN [ref |-> Len(r.heap), val |-> Items(r.heap, Len(r.heap))]
                        ELSE [ref |-> 0, val |-> <<>>]
            /\ UNCHANGED <<l_seq, l_out>>

\* copy.deepcopy() of an IList
IListDeepCopy ==
    \E o \in OfType(l_heap, {"IList"}) :
        LET r == IList_deepcopy(l_heap, o)
        IN  /\ Len(r.heap) <= MaxObjs
            /\ l_heap' = r.heap
            /\ l_born' = Born(l_born, l_heap', o)
            /\ l_call' = [op |-> "deepcopy", on |-> o]
            /\ l_exc' = r.exc
            /\ l_ret' = IF r.exc = None
                        THEN [ref |-> Len(r.heap), val |-> Items(r.heap, Len(r.heap))]
                        ELSE [ref |-> 0, val |-> <<>>]
            /\ UNCHANGED <<l_seq, l_out>>

IsBig(x) == x > 1

\* The read operations: reverse(), map(lambda x: x + 1), filter(lambda x:
\* x > 1), take(1), and iter() of the object itself.
ReadOps == {"reverse", "map", "filter", "take", "iter"}

\* A read or transformation of an IList or IFrozenList, the whole call: map,
\* filter and zip call iter(self), which is iter(self._list), at once, and
\* reversed(self._list) takes the place of the last element as its start; no
\* element is read.  The Seq returned (for iter, the list's iterator itself)
\* holds that iterator, which reads the list as it is when next() is called.
\* The client makes one such call, at any moment.
ListRead ==
    \E o \in OfType(l_heap, {"IList", "IFrozenList"}), op \in ReadOps :
        /\ l_seq.state = "none"
        /\ l_call' = [op |-> op, on |-> o]
        /\ l_exc' = None
        /\ l_ret' = [ref |-> 0, val |-> <<>>]
        /\ l_seq' = [op |-> op, on |-> o, list |-> Backing(l_heap, o),
                     pos |-> IF op = "reverse" THEN Len(Items(l_heap, o)) ELSE 0,
                     i |-> 0, state |-> "live"]
        /\ l_out' = <<>>
        /\ UNCHANGED <<l_heap, l_born>>

\* next() on a list's or tuple's iterator that has given out pos elements,
\* the list holding `items` now.
iter_next(pos, items) ==
    IF pos < Len(items)
    THEN [stop |-> FALSE, val |-> items[pos + 1], pos |-> pos + 1]
    ELSE [stop |-> TRUE, val |-> 0, pos |-> pos]

\* next() on reversed(list) that gives the element at pos next
reversed_next(pos, items) ==
    IF pos >= 1 /\ pos <= Len(items)
    THEN [stop |-> FALSE, val |-> items[pos], pos |-> pos - 1]
    ELSE [stop |-> TRUE, val |-> 0, pos |-> 0]

\* next() on filter(IsBig, iterator): the iterator is asked until it gives an
\* element the function accepts, or ends.
RECURSIVE filter_iter_next(_, _)
filter_iter_next(pos, items) ==
    LET n == iter_next(pos, items)
    IN  IF n.stop \/ IsBig(n.val) THEN n ELSE filter_iter_next(n.pos, items)

\* next() on the iterator of the Seq a read operation returned, in the state
\* it, over a list that holds `items` now: whether it stopped, the element it
\* gave, and the iterator afterwards.
Read_next(it, items) ==
    CASE it.op = "reverse" ->
            LET n == reversed_next(it.pos, items)
            IN  [stop |-> n.stop, val |-> n.val, it |-> [it EXCEPT !.pos = n.pos]]
      [] it.op = "map" ->
            LET n == iter_next(it.pos, items)
            IN  [stop |-> n.stop, val |-> n.val + 1, it |-> [it EXCEPT !.pos = n.pos]]
      [] it.op = "filter" ->
            LET n == filter_iter_next(it.pos, items)
            IN  [stop |-> n.stop, val |-> n.val, it |-> [it EXCEPT !.pos = n.pos]]
      [] it.op = "take" ->
            LET n == zip_next([i |-> it.i, up |-> SubSeq(items, it.pos + 1, Len(items))], 1)
            IN  [stop |-> n.stop, val |-> n.val,
                 it |-> [it EXCEPT !.i = n.zip.i, !.pos = Len(items) - Len(n.zip.up)]]
      [] it.op = "iter" ->
            LET n == iter_next(it.pos, items)
            IN  [stop |-> n.stop, val |-> n.val, it |-> [it EXCEPT !.pos = n.pos]]

\* The consumer calls next() on that iterator.  Once it has raised
\* StopIteration it is exhausted: it lets go of the list and raises
\* StopIteration again whatever the list holds.
ListReadPull ==
    /\ l_seq.state \in {"live", "done"}
    /\ l_call' = [op |-> "next", on |-> l_seq.on]
    /\ IF l_seq.state = "done"
       THEN /\ l_exc' = "StopIteration"
            /\ l_ret' = [ref |-> 0, val |-> <<>>]
            /\ UNCHANGED <<l_seq, l_out>>
       ELSE LET n == Read_next(l_seq, l_heap[l_seq.list].items)
            IN  /\ l_seq' = IF n.stop
                           THEN [l_seq EXCEPT !.pos = 0, !.i = 0, !.state = "done"]
                           ELSE n.it
                /\ l_exc' = IF n.stop THEN "StopIteration" ELSE None
                /\ l_ret' = [ref |-> 0, val |-> IF n.stop THEN <<>> ELSE <<n.val>>]
                /\ l_out' = IF n.stop THEN l_out ELSE Append(l_out, n.val)
    /\ UNCHANGED <<l_heap, l_born>>

\* tofrozenlist(): IFrozenList returns self; IList has IterableMixin's, which
\* constructs IFrozenList(self).
ToFrozenList ==
    \E o \in OfType(l_heap, {"IList", "IFrozenList"}) :
        /\ l_call' = [op |-> "tofrozenlist", on |-> o]
        /\ l_exc' = None
        /\ UNCHANGED <<l_seq, l_out>>
        /\ IF l_heap[o].t = "IFrozenList"
           THEN /\ l_ret' = [ref |-> o, val |-> Items(l_heap, o)]
                /\ UNCHANGED <<l_heap, l_born>>
           ELSE /\ Len(IFrozenList_init(l_heap, o)) <= MaxObjs
                /\ l_heap' = IFrozenList_init(l_heap, o)
                /\ l_born' = Born(l_born, l_heap', o)
                /\ l_ret' = [ref |-> Len(l_heap'), val |-> Items(l_heap', Len(l_heap'))]

\* ================================================================== take
\* IterableMixin.take(n) on a collection whose iterator counts what is asked
\* of it, and the consumer of the Seq that take returns.
VARIABLES
    t_src,      \* the elements of the upstream source when take is called
    t_n,        \* take's argument n
    t_call,     \* "take" once take has been called, None before
    t_zip,      \* zip(range(n), self): i, how far range(n) has got; up, the
                \* elements the upstream iterator has not given out yet
    t_gen,      \* the generator behind the returned Seq: "none", "live", "done"
    t_out,      \* the elements the consumer got so far
    t_obs       \* iters: calls of iter() on the upstream source; nexts: calls of
                \* next() on its iterator; asks: calls of next() by the consumer

takeVars == <<t_src, t_n, t_call, t_zip, t_gen, t_out, t_obs>>

\* The largest n handed to take.
MaxTake == 3

TakeInit ==
    /\ t_src \in SeqsUpTo(Vals, MaxLen)
    /\ t_n = 0
    /\ t_call = None
    /\ t_zip = [i |-> 0, up |-> t_src]
    /\ t_gen = "none"
    /\ t_out = <<>>
    /\ t_obs = [iters |-> 0, nexts |-> 0, asks |-> 0]

\* self.take(n), the whole call: the generator expression builds
\* zip(range(n), self) at once, which calls iter(self) and asks for no element;
\* a Seq over the generator, which has not started, is returned.
Take ==
    \E n \in 0..MaxTake :
        /\ t_call = None
        /\ t_call' = "take"
        /\ t_n' = n
        /\ t_zip' = [i |-> 0, up |-> t_src]
        /\ t_gen' = "live"
        /\ t_obs' = [t_obs EXCEPT !.iters = @ + 1]
        /\ UNCHANGED <<t_src, t_out>>

\* The consumer calls next() on the iterator of take's Seq.  A generator that
\* has ended raises StopIteration again without running.
TakePull ==
    /\ t_gen \in {"live", "done"}
    /\ t_obs.asks <= MaxTake + 1
    /\ IF t_gen = "done"
       THEN /\ t_obs' = [t_obs EXCEPT !.asks = @ + 1]
            /\ UNCHANGED <<t_zip, t_gen, t_out>>
       ELSE LET r == zip_next(t_zip, t_n)
            IN  /\ t_zip' = r.zip
                /\ t_obs' = [t_obs EXCEPT !.asks = @ + 1, !.nexts = @ + r.nexts]
                /\ t_gen' = IF r.stop THEN "done" ELSE "live"
                /\ t_out' = IF r.stop THEN t_out ELSE Append(t_out, r.val)
    /\ UNCHANGED <<t_src, t_n, t_call>>

\* ================================================================== specifications
vars == <<seqVars, aggVars, dictVars, resVars, listVars, takeVars>>

SeqIdle ==
    /\ s_seq = NoAttr /\ s_ran = FALSE /\ s_iter = NoIter /\ s_out = <<>> /\ s_warn = 0
    /\ s_exc = None /\ s_ret = None /\ s_effects = <<>>
    /\ s_hist = [src0 |-> <<>>, iters |-> 0, tees |-> 0, last |-> "__init__"]
    /\ s_str = EmptyStr

AggIdle == a_self = <<>> /\ a_key = None /\ a_call = None /\ a_ret = None /\ a_exc = None

DictIdle ==
    /\ d_self = <<>> /\ d_other = <<>> /\ d_in = [self |-> <<>>, other |-> <<>>] /\ d_call = NoCall
    /\ d_ret = None /\ d_exc = NoError /\ d_gen = [state |-> "none", keys |-> <<>>] /\ d_out = <<>>

ResIdle ==
    /\ r_parent = <<>> /\ r_call = None /\ r_spec = Specifier(None, "", 0) /\ r_exc = NoExc
    /\ r_pipe = NoPipe /\ r_out = <<>> /\ r_ret = <<>> /\ r_obs = [iters |-> 0, calls |-> 0]

ListIdle ==
    /\ l_heap = <<>> /\ l_born = <<>> /\ l_call = [op |-> None, on |-> 0] /\ l_exc = None
    /\ l_ret = [ref |-> 0, val |-> <<>>] /\ l_seq = NoSeq /\ l_out = <<>>

TakeIdle ==
    /\ t_src = <<>> /\ t_n = 0 /\ t_call = None /\ t_zip = [i |-> 0, up |-> <<>>]
    /\ t_gen = "none" /\ t_out = <<>> /\ t_obs = [iters |-> 0, nexts |-> 0, asks |-> 0]

\* One Seq instance: construction, then tee, mkstring, listrepr, __iter__ and
\* the consumer's next().
InitSeq == SeqInit /\ AggIdle /\ DictIdle /\ ResIdle /\ ListIdle /\ TakeIdle

NextSeq ==
    \/ Tee /\ UNCHANGED <<aggVars, dictVars, resVars, listVars, takeVars>>
    \/ SeqIter /\ UNCHANGED <<aggVars, dictVars, resVars, listVars, takeVars>>
    \/ SeqPull /\ UNCHANGED <<aggVars, dictVars, resVars, listVars, takeVars>>
    \/ MkString /\ UNCHANGED <<aggVars, dictVars, resVars, listVars, takeVars>>
    \/ ListRepr /\ UNCHANGED <<aggVars, dictVars, resVars, listVars, takeVars>>

SpecSeq == InitSeq /\ [][NextSeq]_vars

\* keyby, aggregateby and foldby on every collection within the bounds.
InitAgg == AggInit /\ SeqIdle /\ DictIdle /\ ResIdle /\ ListIdle /\ TakeIdle

NextAgg ==
    \/ KeyBy /\ UNCHANGED <<seqVars, dictVars, resVars, listVars, takeVars>>
    \/ AggregateBy /\ UNCHANGED <<seqVars, dictVars, resVars, listVars, takeVars>>
    \/ FoldBy /\ UNCHANGED <<seqVars, dictVars, resVars, listVars, takeVars>>

SpecAgg == InitAgg /\ [][NextAgg]_vars

\* union and join on every pair of mappings within the bounds.
InitDict == DictInit /\ SeqIdle /\ AggIdle /\ ResIdle /\ ListIdle /\ TakeIdle

NextDict ==
    \/ Union /\ UNCHANGED <<seqVars, aggVars, resVars, listVars, takeVars>>
    \/ Join /\ UNCHANGED <<seqVars, aggVars, resVars, listVars, takeVars>>
    \/ JoinPull /\ UNCHANGED <<seqVars, aggVars, resVars, listVars, takeVars>>

SpecDict == InitDict /\ [][NextDict]_vars

\* The chaining operations with every specifier, on every IList within the bounds.
InitRes == ResInit /\ SeqIdle /\ AggIdle /\ DictIdle /\ ListIdle /\ TakeIdle

NextRes ==
    \/ Map /\ UNCHANGED <<seqVars, aggVars, dictVars, listVars, takeVars>>
    \/ Filter /\ UNCHANGED <<seqVars, aggVars, dictVars, listVars, takeVars>>
    \/ FlatMap /\ UNCHANGED <<seqVars, aggVars, dictVars, listVars, takeVars>>
    \/ Fold /\ UNCHANGED <<seqVars, aggVars, dictVars, listVars, takeVars>>
    \/ GroupBy /\ UNCHANGED <<seqVars, aggVars, dictVars, listVars, takeVars>>
    \/ ResPull /\ UNCHANGED <<seqVars, aggVars, dictVars, listVars, takeVars>>

SpecRes == InitRes /\ [][NextRes]_vars

\* The client's lists, tuples, ILists and IFrozenLists.
InitList == ListInit /\ SeqIdle /\ AggIdle /\ DictIdle /\ ResIdle /\ TakeIdle

NextList ==
    \/ NewIList /\ UNCHANGED <<seqVars, aggVars, dictVars, resVars, takeVars>>
    \/ NewIFrozenList /\ UNCHANGED <<seqVars, aggVars, dictVars, resVars, takeVars>>
    \/ ListAppend /\ UNCHANGED <<seqVars, aggVars, dictVars, resVars, takeVars>>
    \/ IListAppend /\ UNCHANGED <<seqVars, aggVars, dictVars, resVars, takeVars>>
    \/ IListCopy /\ UNCHANGED <<seqVars, aggVars, dictVars, resVars, takeVars>>
    \/ IListDeepCopy /\ UNCHANGED <<seqVars, aggVars, dictVars, resVars, takeVars>>
    \/ ListRead /\ UNCHANGED <<seqVars, aggVars, dictVars, resVars, takeVars>>
    \/ ListReadPull /\ UNCHANGED <<seqVars, aggVars, dictVars, resVars, takeVars>>
    \/ ToFrozenList /\ UNCHANGED <<seqVars, aggVars, dictVars, resVars, takeVars>>

SpecList == InitList /\ [][NextList]_vars

\* take(n) with every n on every source within the bounds, and its consumer.
InitTake == TakeInit /\ SeqIdle /\ AggIdle /\ DictIdle /\ ResIdle /\ ListIdle

NextTake ==
    \/ Take /\ UNCHANGED <<seqVars, aggVars, dictVars, resVars, listVars>>
    \/ TakePull /\ UNCHANGED <<seqVars, aggVars, dictVars, resVars, listVars>>

SpecTake == InitTake /\ [][NextTake]_vars

\* ================================================================== properties

\* s repeated n times
RECURSIVE Repeat(_, _)
Repeat(s, n) == IF n = 0 THEN <<>> ELSE s \o Repeat(s, n - 1)

\* C1: a second iteration of a Seq that was already iterated prints the
\* warning and then completes normally with zero elements: the call raises
\* nothing and the consumer holds an iterator that has nothing to yield.
C1_ReiterationIsEmpty ==
    (s_hist.iters >= 2 /\ s_hist.last = "__iter__") =>
        /\ s_warn >= 1
        /\ s_exc = None
        /\ s_iter.state \in {"live", "done"}
        /\ s_iter.rest = <<>>
        /\ s_out = <<>>

\* The elements of s whose key under kf is k, in order.
WithKey(s, kf, k) ==
    LET HasKey(x) == KeyFn(kf, x) = k
    IN  SelectSeq(s, HasKey)

\* C2: aggregateby (and foldby) returns a mapping whose keys are exactly the
\* resolved keys of the elements, each with the accumulator seeded by create on
\* the first element with that key and then updated by add for every element
\* with that key in encounter order, the first included.
C2_AggregatePerKey ==
    a_call \in {"aggregateby", "foldby"} =>
        LET cr == IF a_call = "foldby" THEN "agg0" ELSE "tuple1"
            ks == {KeyFn(a_key, a_self[i]) : i \in 1..Len(a_self)}
        IN  /\ Len(a_ret) = Cardinality(ks)
            /\ DictItems(a_ret) =
                 {<<k, Create(cr, WithKey(a_self, a_key, k)[1]) \o WithKey(a_self, a_key, k)>> :
                     k \in ks}

\* The keys join's result covers under each `how`.
JoinKeySet(self, other, how) ==
    CASE how = "inner" -> DictKeySet(self) \cap DictKeySet(other)
      [] how = "outer" -> DictKeySet(self) \cup DictKeySet(other)
      [] how = "left"  -> DictKeySet(self)
      [] how = "right" -> DictKeySet(other)

\* C3: the Seq join returns yields exactly one pair (key, (left, right)) per
\* key of the result key set (intersection for inner, union for outer, self's
\* keys for left, other's for right), left being self's value or None and right
\* being other's value or None.
C3_JoinPairs ==
    (d_call.op = "join" /\ d_call.how \in {"inner", "outer", "left", "right"}
        /\ d_gen.state = "done") =>
        LET ks == JoinKeySet(d_in.self, d_in.other, d_call.how)
        IN  /\ Len(d_out) = Cardinality(ks)
            /\ {d_out[i][1] : i \in 1..Len(d_out)} = ks
            /\ \A i \in 1..Len(d_out) :
                  LET k == d_out[i][1]
                  IN  /\ d_out[i][2][1] = IF k \in DictKeySet(d_in.self)
                                          THEN <<DictGet(d_in.self, k)>> ELSE <<>>
                      /\ d_out[i][2][2] = IF k \in DictKeySet(d_in.other)
                                          THEN <<DictGet(d_in.other, k)>> ELSE <<>>

\* The example of the specification: self = {a: 1, b: 2}, other = {b: 20,
\* c: 30} with a, b, c = 0, 1, 2, joined `left` and traversed to the end.
C3_Witness ==
    /\ d_in.self = <<(<<0, 1>>), (<<1, 2>>)>>
    /\ d_in.other = <<(<<1, 20>>), (<<2, 30>>)>>
    /\ d_call.op = "join" /\ d_call.how = "left"
    /\ d_gen.state = "done"
    /\ Len(d_out) = 2
    /\ d_out[1][2][2] = <<>>
    /\ d_out[2][2] = <<(<<2>>), (<<20>>)>>

\* C4 as stated: a specifier that is neither callable, str nor int is accepted
\* by the chaining operation, and its TypeError is raised at the first use of
\* the resolved function: by the consumer's next(), or in an eager operation
\* once the iteration of the collection has begun.
C4_RaisedAtFirstUse ==
    (r_call # None /\ r_spec.kind = "other" /\ r_exc.msg = "Can't call") =>
        (r_exc.at = "next" \/ r_obs.iters >= 1)

\* C4, amended: map, filter, flatmap, fold and groupby raise the TypeError of a
\* specifier that is neither callable, str nor int themselves, when they are
\* called: nothing is returned, the collection has not been iterated and the
\* function has been applied to no element.  No other specifier raises it.
C4_RaisedAtAcceptance ==
    /\ (r_call # None /\ r_spec.kind = "other") =>
          /\ r_exc = [type |-> "TypeError", msg |-> "Can't call", at |-> "call"]
          /\ r_pipe = NoPipe
          /\ r_ret = <<>>
          /\ r_out = <<>>
          /\ r_obs = [iters |-> 0, calls |-> 0]
    /\ r_exc.msg = "Can't call" => r_spec.kind = "other"

C4_Witness ==
    /\ r_call = "map"
    /\ r_spec.kind = "other"
    /\ Len(r_parent) >= 1
    /\ r_exc.at = "call"

\* C5: copy and deep-copy of an IList succeed and return a new IList with the
\* same elements in the same order over a list of its own, so that an append to
\* one does not show in the other.
C5_CopyIsIndependent ==
    l_call.op \in {"copy", "deepcopy"} =>
        /\ l_exc = None
        /\ l_ret.ref \in OfType(l_heap, {"IList"}) \ {l_call.on}
        /\ l_heap[l_ret.ref].ref # l_heap[l_call.on].ref
        /\ l_ret.val = Items(l_heap, l_call.on)

\* C6: in every state of a Seq, whatever calls of tee and __iter__ came
\* before, the instance holds its source exactly when _ran is unset.
C6_SourceHeldIffNotRan ==
    (s_seq # NoAttr) <=> ~s_ran

\* tee, then two calls of __iter__, and a tee after them
C6_Witness ==
    /\ s_ran
    /\ s_seq = NoAttr
    /\ s_hist.tees >= 1
    /\ s_hist.iters >= 2
    /\ s_hist.last = "tee"

\* C7: tee on an unconsumed Seq returns the instance itself after calling the
\* effect on every element of the source once, in order; the one iteration
\* that follows yields the source's elements in order, with no warning.
C7_TeeThenIterate ==
    /\ s_effects = Repeat(s_hist.src0, s_hist.tees)
    /\ (s_hist.last = "tee" /\ ~s_ran) => (s_ret = "self" /\ s_exc = None)
    /\ (s_hist.tees >= 1 /\ s_hist.iters = 1) =>
          /\ s_warn = 0
          /\ s_iter.state \in {"live", "done"}
          /\ s_out \o s_iter.rest = s_hist.src0
          /\ s_iter.state = "done" => s_out = s_hist.src0

\* C8: union raises the ValueError that counts the common keys exactly when
\* error_on_overlap is set and the key sets intersect; otherwise it returns a
\* mapping over the union of the keys with other's value for every key of
\* other and self's value for the rest; self is as it was.
C8_Union ==
    d_call.op = "union" =>
        LET common == DictKeySet(d_in.self) \cap DictKeySet(d_in.other)
            fails  == d_call.error_on_overlap /\ common # {}
        IN  /\ d_self = d_in.self
            /\ fails => d_exc = [type |-> "ValueError", n |-> Cardinality(common)]
            /\ ~fails =>
                  /\ d_exc = NoError
                  /\ DictKeySet(d_ret) = DictKeySet(d_in.self) \cup DictKeySet(d_in.other)
                  /\ Len(d_ret) = Cardinality(DictKeySet(d_ret))
                  /\ \A k \in DictKeySet(d_ret) :
                        DictGet(d_ret, k) = IF k \in DictKeySet(d_in.other)
                                            THEN DictGet(d_in.other, k)
                                            ELSE DictGet(d_in.self, k)

\* a union of overlapping mappings without error_on_overlap
C8_Witness ==
    /\ d_call.op = "union"
    /\ ~d_call.error_on_overlap
    /\ DictKeySet(d_in.self) \cap DictKeySet(d_in.other) # {}
    /\ DictKeySet(d_in.self) \ DictKeySet(d_in.other) # {}
    /\ d_exc = NoError
    /\ Len(d_ret) = 3

\* C9: keyby raises ValueError exactly when two elements at different
\* positions have the same key; otherwise it returns a mapping with one entry
\* per element, from the element's key to the element.
C9_KeyBy ==
    a_call = "keyby" =>
        LET dup == \E i, j \in 1..Len(a_self) :
                      i # j /\ KeyFn(a_key, a_self[i]) = KeyFn(a_key, a_self[j])
        IN  /\ dup => a_exc = "ValueError"
            /\ ~dup =>
                  /\ a_exc = None
                  /\ Len(a_ret) = Len(a_self)
                  /\ DictItems(a_ret) =
                        {<<KeyFn(a_key, a_self[i]), a_self[i]>> : i \in 1..Len(a_self)}

\* keyby over three elements of which the third repeats a key
C9_Witness ==
    /\ a_call = "keyby"
    /\ a_exc = "ValueError"
    /\ Len(a_self) = 3
    /\ KeyFn(a_key, a_self[1]) # KeyFn(a_key, a_self[2])

\* C10: an IFrozenList holds the elements it was constructed with in every
\* later state, whatever is read from it and whatever is appended to the
\* object it was constructed from; tofrozenlist() on it returns the object
\* itself.
C10_FrozenNeverChanges ==
    /\ \A f \in OfType(l_heap, {"IFrozenList"}) : Items(l_heap, f) = l_born[f].items
    /\ (l_call.op = "tofrozenlist" /\ l_call.on \in OfType(l_heap, {"IFrozenList"})) =>
          (l_ret.ref = l_call.on /\ l_exc = None)

\* an append to the IList an IFrozenList was constructed from
C10_Witness ==
    /\ l_call.op = "append"
    /\ \E f \in OfType(l_heap, {"IFrozenList"}) :
          /\ l_born[f].src = l_call.on
          /\ l_born[f].items # <<>>
          /\ Len(Items(l_heap, l_call.on)) > Len(l_born[f].items)

Min(a, b) == IF a <= b THEN a ELSE b

\* C11: take(n) yields the first min(n, length) elements in order and asks
\* the upstream iterator at most n times: nothing is asked of it before the
\* consumer asks, nothing after the n-th element was yielded, and every element
\* it gave out was yielded.
C11_TakeAsksAtMostN ==
    t_call = "take" =>
        /\ t_obs.nexts <= t_n
        /\ t_obs.nexts <= t_obs.asks
        /\ Len(t_out) <= Min(t_n, Len(t_src))
        /\ t_out \o t_zip.up = t_src
        /\ t_gen = "done" => t_out = SubSeq(t_src, 1, Min(t_n, Len(t_src)))

\* take(n) on a source longer than n, asked once more after its n-th element
C11_Witness ==
    /\ t_call = "take"
    /\ t_n >= 2
    /\ Len(t_src) > t_n
    /\ Len(t_out) = t_n
    /\ t_gen = "done"
    /\ t_obs.asks > t_n + 1
    /\ t_obs.nexts = t_n

====
